---- MODULE Spec2Model ----
(***************************************************************************)
(* A model of the fuel-driven cooperative partition scheduler:             *)
(*   src/src/wasm_api.c  the partition registry and its operations         *)
(*   src/src/wasm_api.h  constants, the partition struct, the status enum  *)
(*   src/main.c          main and the scheduling loop sched_cycle          *)
(*                                                                         *)
(* The execution engine (wasmtime) is an external collaborator.  It is     *)
(* modelled by the contract of spec.md sections 2, 4.2 and 6: a store has  *)
(* a fuel counter and a yield interval, a call is a future that is polled, *)
(* and a poll consumes fuel and reports completion (return or trap) or     *)
(* suspension.                                                             *)
(*                                                                         *)
(* Memory the C code reads before writing it (fields of a malloc'ed        *)
(* struct) is "uninit": its value is chosen when it is first read and kept *)
(* from then on.  A NULL or dangling dereference, a wild pointer access    *)
(* and a write outside the partitions array end the run in a fault state:  *)
(* nothing is stated about the execution after it.                         *)
(***************************************************************************)
EXTENDS Integers, FiniteSets, Sequences, TLC

(* ------------------------------------------------------------------ *)
(* Program constants                                                    *)
(* ------------------------------------------------------------------ *)
NUM_MAX_PARTITIONS == 2
YIELD_AFTER == 100
WASM_API_ERR == -1
WASM_API_OK == 0
PARTITION_DONE == 0
PARTITION_YIELDED == 1
PARTITION_ERROR == 2

(* ------------------------------------------------------------------ *)
(* Bounds of the model                                                  *)
(* ------------------------------------------------------------------ *)
\* ids tried on each side of the array: -IdSlack .. NUM_MAX_PARTITIONS-1+IdSlack
IdSlack == 1
\* the fuel amount a caller of wasm_api_inject_fuel passes, when not 0
MaxFuel == 250
\* the budget main injects; FUEL_AMOUNT (10000000) scaled to keep runs short
MainFuel == 450
\* fuel a long guest call needs to return (more than two yield intervals)
LongWork == 250
\* fuel a short guest call needs to finish (less than one yield interval)
ShortWork == 50

Ids == (0 - IdSlack)..(NUM_MAX_PARTITIONS - 1 + IdSlack)
Slots == 0..(NUM_MAX_PARTITIONS - 1)
FuelAmounts == {0, MaxFuel}

(* ------------------------------------------------------------------ *)
(* The files a caller may name and the guest programs they hold         *)
(* ------------------------------------------------------------------ *)
\* "absent": fopen fails; "short": fread returns less than the file size;
\* "invalid": wasmtime_module_new rejects the bytes; "unlinkable":
\* wasmtime_linker_instantiate_pre fails; "insterr": starting the
\* instantiation fails; "starttrap": the module's start function traps;
\* the others instantiate: "fib" exports main, a long call; "quick" exports
\* main, a short call; "trapper" exports main, which traps; "noexport" has
\* no export named main.
GoodFiles == {"fib", "quick", "trapper", "noexport"}
Files == {"absent", "short", "invalid", "unlinkable", "insterr", "starttrap"} \cup GoodFiles
FuncNames == {"main", "other"}

HasExport(file, func_name) == func_name = "main" /\ file \in {"fib", "quick", "trapper"}
Work(file) == IF file = "fib" THEN LongWork ELSE ShortWork
Ending(file) == IF file = "trapper" THEN "trap" ELSE "ret"

(* ------------------------------------------------------------------ *)
(* Engine contract (spec.md 6)                                          *)
(* ------------------------------------------------------------------ *)
\* fuel a poll may burn before the engine must suspend or stop the call
Runnable(fuel, interval) == IF interval = 0 \/ fuel < interval THEN fuel ELSE interval

\* poll(call): the call needs `need` more fuel and ends with `ending`.
\*   enough fuel in this slice      -> completed (return or guest trap)
\*   slice used up, fuel in reserve -> suspended
\*   no fuel left                   -> completed with an out-of-fuel trap
EnginePoll(fuel, interval, need, ending) ==
    LET q == Runnable(fuel, interval) IN
    IF need <= q
      THEN [ready |-> TRUE, fuel |-> fuel - need, need |-> 0, end |-> ending]
      ELSE IF interval > 0 /\ fuel > q
        THEN [ready |-> FALSE, fuel |-> fuel - q, need |-> need - q, end |-> "susp"]
        ELSE [ready |-> TRUE, fuel |-> 0, need |-> 0, end |-> "trap"]

\* start_call(context, callable, args): always hands back a future; a trap
\* or an error of the call is reported by the poll that completes it
EngineStartCall(file) ==
    [future |-> "live", need |-> Work(file), error |-> FALSE, trap |-> FALSE]

(* ------------------------------------------------------------------ *)
(* State                                                                *)
(* ------------------------------------------------------------------ *)
VARIABLES
    engine,         \* wasm_engine_t *engine: "NULL" or "live"
    partitions,     \* the registry: slot -> partition record (ptr = "NULL": empty slot)
    fault,          \* "none", or the undefined behaviour that ended the run
    last,           \* what the last API call did and returned
    pc,             \* main's position ("api" when the API is driven directly)
    num_partition,  \* sched_cycle's current index
    streak,         \* the partitions run by the latest consecutive Yielded cycles
    tick,           \* flips at every iteration of sched_cycle's loop
    slices          \* per partition, of the latest call sched_cycle started:
                    \* the fuel it started with, the times it yielded, and
                    \* whether it is the partition's first call

vars == <<engine, partitions, fault, last, pc, num_partition, streak, tick, slices>>

\* partitions[i] == NULL
NoPartition ==
    [ptr |-> "NULL", store |-> "NULL", linker |-> "NULL", module |-> "NULL",
     instantiated |-> "false", instance |-> "uninit", future |-> "NULL",
     results |-> "NULL", file |-> "none", fuel |-> 0, interval |-> 0, need |-> 0]

\* partitions[i] points to a struct that free() has released
FreedPartition == [NoPartition EXCEPT !.ptr = "freed"]

\* malloc(sizeof(wasm_partition)): no field is initialised
MallocPartition ==
    [ptr |-> "live", store |-> "uninit", linker |-> "uninit", module |-> "uninit",
     instantiated |-> "uninit", instance |-> "uninit", future |-> "uninit",
     results |-> "uninit", file |-> "none", fuel |-> 0, interval |-> 0, need |-> 0]

NoCall ==
    [op |-> "none", id |-> 0, func |-> "none", returned |-> TRUE, ret |-> 0,
     lookup |-> FALSE, started |-> 0, polled |-> FALSE, end |-> "none",
     alloc |-> FALSE, engerr |-> FALSE, oob |-> "none", got |-> "none",
     leaked |-> {}, yield |-> FALSE, amount |-> 0, deleted |-> FALSE,
     released |-> {}, engdel |-> FALSE, prior |-> -1]

\* no call of the partition has been started by sched_cycle
NoSlices == [budget |-> -1, yields |-> 0, first |-> FALSE]

\* a call that returned to its caller / a call that ended in undefined behaviour
Returned(p, c) == [p |-> p, fault |-> "none", call |-> c]
Faulted(p, f, c) == [p |-> p, fault |-> f, call |-> [c EXCEPT !.returned = FALSE]]

\* the values a read of a field can yield: an uninitialised field yields
\* whatever the memory happens to hold, one of `any`
Reads(v, any) == IF v = "uninit" THEN any ELSE {v}

(* ------------------------------------------------------------------ *)
(* wasm_api.c                                                           *)
(* ------------------------------------------------------------------ *)
\* partitionIdValid(partition_id) == WASM_API_OK
partitionIdValid(partition_id) ==
    ~(partition_id < 0 \/ partition_id > NUM_MAX_PARTITIONS)

\* the index is inside partitions[NUM_MAX_PARTITIONS]
InArray(partition_id) == partition_id \in Slots

\* mutant of the test below: the occupancy check is missing
SlotOccupied_Never(old) == FALSE

\* if(partitions[partition_id] != NULL): already loaded
SlotOccupied(old) == old.ptr # "NULL"

\* wasm_api_load_partition past the id check, on the slot value `old`;
\* `how` says how far the attempt gets: "nomem" (malloc fails), "nostore"
\* (wasmtime_store_new fails) or the file that is named
LoadPartition(old, id, how) ==
    LET c0 == [NoCall EXCEPT !.op = "load", !.id = id, !.ret = WASM_API_ERR]
        c1 == [c0 EXCEPT !.alloc = TRUE]
        m  == MallocPartition
        s  == [m EXCEPT !.store = "live", !.linker = "live", !.module = "NULL",
                        !.instantiated = "false"]
        mo == [s EXCEPT !.module = "live"]
    IN
    IF SlotOccupied(old) THEN Returned(old, c0)                 \* already loaded
    ELSE IF how = "nomem" THEN Returned(old, c0)                \* malloc failed
    ELSE IF how = "nostore" THEN Returned([m EXCEPT !.store = "NULL"], c1)
    ELSE IF how = "absent" THEN Returned(s, c1)                 \* fopen failed
    ELSE IF how \in {"short", "invalid"}                        \* free(partition)
      THEN Returned(FreedPartition,
                    [c1 EXCEPT !.leaked = {<<id, "store">>, <<id, "linker">>}])
    ELSE IF how \in {"unlinkable", "insterr"} THEN Returned(mo, c1)
    ELSE Returned([mo EXCEPT !.file = how,
                             !.instance = IF how = "starttrap" THEN "uninit" ELSE "valid",
                             !.future = "NULL", !.instantiated = "true"],
                  [c1 EXCEPT !.ret = WASM_API_OK,
                             !.end = IF how = "starttrap" THEN "trap" ELSE "ret"])

\* mutants of the function below: the yield flag is ignored and the yield
\* interval always set / the interval set is twice YIELD_AFTER / the amount
\* is added to the fuel that is left
InjectFuel_YieldIgnored(p, id, fuel_amount, yield, setOk) ==
    LET c0 == [NoCall EXCEPT !.op = "inject", !.id = id, !.ret = WASM_API_OK,
                             !.engerr = ~setOk, !.yield = yield,
                             !.amount = fuel_amount]
    IN
    IF p.ptr # "live" \/ p.store # "live" THEN Faulted(p, "wild_deref", c0)
    ELSE Returned([p EXCEPT !.fuel = IF setOk THEN fuel_amount ELSE @,
                            !.interval = YIELD_AFTER], c0)

InjectFuel_DoubleInterval(p, id, fuel_amount, yield, setOk) ==
    LET c0 == [NoCall EXCEPT !.op = "inject", !.id = id, !.ret = WASM_API_OK,
                             !.engerr = ~setOk, !.yield = yield,
                             !.amount = fuel_amount]
    IN
    IF p.ptr # "live" \/ p.store # "live" THEN Faulted(p, "wild_deref", c0)
    ELSE Returned([p EXCEPT !.fuel = IF setOk THEN fuel_amount ELSE @,
                            !.interval = IF yield THEN 2 * YIELD_AFTER ELSE 0], c0)

InjectFuel_Adds(p, id, fuel_amount, yield, setOk) ==
    LET c0 == [NoCall EXCEPT !.op = "inject", !.id = id, !.ret = WASM_API_OK,
                             !.engerr = ~setOk, !.yield = yield,
                             !.amount = fuel_amount]
    IN
    IF p.ptr # "live" \/ p.store # "live" THEN Faulted(p, "wild_deref", c0)
    ELSE Returned([p EXCEPT !.fuel = IF setOk THEN @ + fuel_amount ELSE @,
                            !.interval = IF yield THEN YIELD_AFTER ELSE 0], c0)

\* wasm_api_inject_fuel on the slot value p
InjectFuel(p, id, fuel_amount, yield, setOk) ==
    LET c0 == [NoCall EXCEPT !.op = "inject", !.id = id, !.ret = WASM_API_OK,
                             !.engerr = ~setOk, !.yield = yield,
                             !.amount = fuel_amount]
    IN
    IF p.ptr = "NULL" THEN Faulted(p, "null_deref", c0)
    ELSE IF p.ptr = "freed" THEN Faulted(p, "use_after_free", c0)
    ELSE IF p.store # "live" THEN Faulted(p, "wild_deref", c0)
    ELSE Returned([p EXCEPT !.fuel = IF setOk THEN fuel_amount ELSE @,
                            !.interval = IF yield THEN YIELD_AFTER ELSE 0], c0)

\* wasm_api_fuel_remaining on the slot value p
FuelRemaining(p, id) ==
    LET c0 == [NoCall EXCEPT !.op = "fuel", !.id = id, !.ret = WASM_API_OK]
    IN
    IF p.ptr = "NULL" THEN Faulted(p, "null_deref", c0)
    ELSE IF p.ptr = "freed" THEN Faulted(p, "use_after_free", c0)
    ELSE IF p.store # "live" THEN Faulted(p, "wild_deref", c0)
    ELSE Returned(p, c0)

\* mutants of the test below: a call is started on every run / only on top
\* of a call in flight
NoCallInFlight_Always(p) == TRUE
NoCallInFlight_Inverted(p) == p.future # "NULL"

\* if(partition->future == NULL): a new call is looked up and started
NoCallInFlight(p) == p.future = "NULL"

\* mutant of the poll below: the completed future is deleted but
\* partition->future keeps pointing to it
PollFuture_KeepsHandle(p, c) ==
    LET e == EnginePoll(p.fuel, p.interval, p.need, Ending(p.file))
        cp == [c EXCEPT !.polled = TRUE, !.end = e.end]
        run == [p EXCEPT !.fuel = e.fuel, !.need = e.need]
    IN
    IF e.ready
      THEN Returned(run, [cp EXCEPT !.ret = PARTITION_DONE, !.deleted = TRUE])
      ELSE Returned(run, [cp EXCEPT !.ret = PARTITION_YIELDED])

\* mutant of the poll below: a completed call is reported as yielded
PollFuture_AlwaysYielded(p, c) ==
    LET e == EnginePoll(p.fuel, p.interval, p.need, Ending(p.file))
        cp == [c EXCEPT !.polled = TRUE, !.end = e.end]
        run == [p EXCEPT !.fuel = e.fuel, !.need = e.need]
    IN
    IF e.ready
      THEN Returned([run EXCEPT !.future = "NULL"],
                    [cp EXCEPT !.ret = PARTITION_YIELDED, !.deleted = TRUE])
      ELSE Returned(run, [cp EXCEPT !.ret = PARTITION_YIELDED])

\* mutant of the poll below: the future is deleted after every poll, and
\* kept in partition->future when the call was suspended
PollFuture_DeletesOnYield(p, c) ==
    LET e == EnginePoll(p.fuel, p.interval, p.need, Ending(p.file))
        cp == [c EXCEPT !.polled = TRUE, !.end = e.end, !.deleted = TRUE]
        run == [p EXCEPT !.fuel = e.fuel, !.need = e.need]
    IN
    IF e.ready
      THEN Returned([run EXCEPT !.future = "NULL"],
                    [cp EXCEPT !.ret = PARTITION_DONE])
      ELSE Returned(run, [cp EXCEPT !.ret = PARTITION_YIELDED])

\* the poll of line 381 and what follows it: a completed future is deleted
\* and partition->future set to NULL
PollFuture(p, c) ==
    LET e == EnginePoll(p.fuel, p.interval, p.need, Ending(p.file))
        cp == [c EXCEPT !.polled = TRUE, !.end = e.end]
        run == [p EXCEPT !.fuel = e.fuel, !.need = e.need]
    IN
    IF e.ready
      THEN Returned([run EXCEPT !.future = "NULL"],
                    [cp EXCEPT !.ret = PARTITION_DONE, !.deleted = TRUE])
      ELSE Returned(run, [cp EXCEPT !.ret = PARTITION_YIELDED])

\* mutant of the test below: whatever the lookup finds is called
ExportFound_Always(p, func_name) == TRUE

\* ok && ext.kind == WASMTIME_EXTERN_FUNC: the instance exports a function
\* named func_name
ExportFound(p, func_name) == HasExport(p.file, func_name)

\* wasm_api_run_partition on the slot value p; readResults and readInst
\* are what the reads of partition->results and partition->instantiated
\* yield, mallocOk whether the results buffer can be allocated
RunPartition(p, id, func_name, readResults, readInst, mallocOk) ==
    LET c0 == [NoCall EXCEPT !.op = "run", !.id = id, !.func = func_name,
                             !.ret = WASM_API_ERR]
        r1 == IF readResults = "NULL" /\ mallocOk THEN "heap" ELSE readResults
        c1 == [c0 EXCEPT !.alloc = (readResults = "NULL" /\ mallocOk)]
        p1 == [p EXCEPT !.results = r1]
        p2 == [p1 EXCEPT !.instantiated = readInst]
        st == EngineStartCall(p2.file)
        p3 == [p2 EXCEPT !.future = st.future, !.need = st.need]
        c3 == [c1 EXCEPT !.lookup = TRUE, !.started = 1]
    IN
    IF p.ptr = "NULL" THEN Faulted(p, "null_deref", c0)
    ELSE IF p.ptr = "freed" THEN Faulted(p, "use_after_free", c0)
    ELSE IF readResults = "wild" /\ readInst = "true"          \* results written through
      THEN Faulted(p, "uninit_pointer", c0)
    ELSE IF r1 = "NULL" THEN Returned(p1, c1)                   \* results malloc failed
    ELSE IF p2.instantiated # "true" THEN Returned(p2, c1)      \* not instantiated
    ELSE IF p2.instance # "valid" THEN Faulted(p2, "wild_deref", c1)
    ELSE IF NoCallInFlight(p2)
      THEN IF ~ExportFound(p2, func_name)
             THEN Returned(p2, [c1 EXCEPT !.lookup = TRUE])     \* not found
             ELSE IF st.error \/ st.trap
               THEN Returned(p3, [c3 EXCEPT !.engerr = TRUE])
               ELSE PollFuture(p3, c3)
      ELSE PollFuture(p2, c1)

\* mutant of the loop body below: free and the clearing of the slot are
\* done only for an instantiated partition
CleanupSlot_SkipsUninstantiated(p, readInst) ==
    IF p.ptr = "NULL" THEN [p |-> p, fault |-> "none", leaked |-> {}]
    ELSE IF p.ptr = "freed" THEN [p |-> p, fault |-> "use_after_free", leaked |-> {}]
    ELSE IF readInst = "true"
      THEN IF p.module # "live" \/ p.store # "live"
             THEN [p |-> p, fault |-> "wild_deref", leaked |-> {}]
             ELSE [p |-> NoPartition, fault |-> "none", leaked |-> {}]
      ELSE [p |-> p, fault |-> "none", leaked |-> {}]

\* one iteration of wasm_api_cleanup's loop on the slot value p
CleanupSlot(p, readInst) ==
    LET inst == readInst
        owned == {k \in {"store", "linker", "module", "future"} : p[k] = "live"}
                   \cup (IF p.results = "heap" THEN {"results"} ELSE {})
    IN
    IF p.ptr = "NULL" THEN [p |-> p, fault |-> "none", leaked |-> {}]
    ELSE IF p.ptr = "freed" THEN [p |-> p, fault |-> "use_after_free", leaked |-> {}]
    ELSE IF inst = "true"
      THEN IF p.module # "live" \/ p.store # "live"
             THEN [p |-> p, fault |-> "wild_deref", leaked |-> {}]
             ELSE [p |-> NoPartition, fault |-> "none",
                   leaked |-> owned \ {"module", "store"}]
      ELSE [p |-> NoPartition, fault |-> "none", leaked |-> owned]

(* ------------------------------------------------------------------ *)
(* API calls as steps                                                   *)
(* ------------------------------------------------------------------ *)
\* mutant of the effect below: the partitions share one store, the fuel
\* of one is the fuel of all
Effect_SharedContext(id, out) ==
    /\ partitions' = [j \in Slots |-> IF j = id THEN out.p
                                      ELSE [partitions[j] EXCEPT !.fuel = out.p.fuel]]
    /\ fault' = out.fault
    /\ last' = out.call

\* the effect of a call on slot id: the slot, the fault flag, the record of the call
Effect(id, out) ==
    /\ partitions' = [partitions EXCEPT ![id] = out.p]
    /\ fault' = out.fault
    /\ last' = out.call

\* a call that indexes partitions[] outside the array and uses what it finds
OutOfArray(op, id) ==
    /\ UNCHANGED engine
    /\ partitions' = partitions
    /\ fault' = "oob_deref"
    /\ last' = [NoCall EXCEPT !.op = op, !.id = id, !.returned = FALSE, !.oob = "read"]

\* wasm_api_init
InitEngine(ok) ==
    /\ engine' = IF ok THEN "live" ELSE "NULL"
    /\ last' = [NoCall EXCEPT !.op = "init",
                              !.ret = IF ok THEN WASM_API_OK ELSE WASM_API_ERR]
    /\ UNCHANGED <<partitions, fault>>

\* wasm_api_load_partition(id, file); adjacent is what the word after the
\* array holds when the id check lets id = NUM_MAX_PARTITIONS through
Load(id, how, adjacent) ==
    /\ UNCHANGED engine
    /\ IF ~partitionIdValid(id)
         THEN /\ last' = [NoCall EXCEPT !.op = "load", !.id = id, !.ret = WASM_API_ERR]
              /\ UNCHANGED <<partitions, fault>>
         ELSE IF InArray(id)
           THEN Effect(id, LoadPartition(partitions[id], id, how))
           ELSE /\ partitions' = partitions
                /\ IF adjacent = "NULL" /\ how # "nomem"
                     THEN /\ fault' = "oob_write"       \* partitions[id] = partition
                          /\ last' = [NoCall EXCEPT !.op = "load", !.id = id,
                                        !.returned = FALSE, !.alloc = TRUE, !.oob = "write"]
                     ELSE /\ fault' = fault
                          /\ last' = [NoCall EXCEPT !.op = "load", !.id = id,
                                        !.ret = WASM_API_ERR, !.oob = "read"]

\* wasm_api_inject_fuel(id, fuel_amount, yield)
Inject(id, fuel_amount, yield, setOk) ==
    /\ UNCHANGED engine
    /\ Effect(id, InjectFuel(partitions[id], id, fuel_amount, yield, setOk))

\* wasm_api_run_partition(id, func_name), the reads of uninitialised fields
\* and the allocation of the results buffer going any way they can
Run(id, func_name) ==
    /\ UNCHANGED engine
    /\ \E readResults \in Reads(partitions[id].results, {"NULL", "wild"}),
          readInst \in Reads(partitions[id].instantiated, {"true", "false"}) :
       \E mallocOk \in (IF readResults = "NULL" THEN BOOLEAN ELSE {TRUE}) :
          Effect(id, RunPartition(partitions[id], id, func_name,
                                  readResults, readInst, mallocOk))

\* wasm_api_fuel_remaining(id)
Fuel(id) ==
    /\ UNCHANGED engine
    /\ Effect(id, FuelRemaining(partitions[id], id))

\* get_wasm_partition(id): the id check's answer is ignored
GetPartition(id) ==
    /\ last' = [NoCall EXCEPT !.op = "get", !.id = id,
                  !.oob = IF InArray(id) THEN "none" ELSE "read",
                  !.got = IF InArray(id) THEN partitions[id].ptr ELSE "wild"]
    /\ UNCHANGED <<engine, partitions, fault>>

\* the slots after wasm_api_cleanup's loop has run from slot i on, and what
\* it has left unreleased: pairs <<slot, resource>>
RECURSIVE CleanupFrom(_, _, _, _)
CleanupFrom(i, ps, readInst, leaked) ==
    IF i >= NUM_MAX_PARTITIONS THEN [ps |-> ps, fault |-> "none", leaked |-> leaked]
    ELSE LET r == CleanupSlot(ps[i], readInst[i]) IN
         IF r.fault # "none" THEN [ps |-> ps, fault |-> r.fault, leaked |-> leaked]
         ELSE CleanupFrom(i + 1, [ps EXCEPT ![i] = r.p], readInst,
                          leaked \cup {<<i, k>> : k \in r.leaked})

\* mutant of the release below: the engine is deleted and the handle kept
ReleaseEngine_KeepsHandle(e) == [engine |-> e, deleted |-> (e # "NULL")]

\* if (engine) { wasm_engine_delete(engine); engine = NULL; }
ReleaseEngine(e) == [engine |-> "NULL", deleted |-> (e # "NULL")]

\* what the loop has released of the slots ps it started from: the struct of
\* every slot it emptied, with the module and the store if the partition
\* was found instantiated
Released(ps, after, readInst) ==
    {<<i, "struct">> : i \in {j \in Slots : ps[j].ptr = "live" /\ after[j].ptr = "NULL"}}
      \cup {<<i, k>> : i \in {j \in Slots : /\ ps[j].ptr = "live" /\ after[j].ptr = "NULL"
                                            /\ readInst[j] = "true"},
                       k \in {"module", "store"}}

\* wasm_api_cleanup; `prior` is the number of things the call before it
\* released, if that call was a wasm_api_cleanup that returned, -1 if not
Cleanup(readInst) ==
    LET r == CleanupFrom(0, partitions, readInst, {})
        e == IF r.fault = "none" THEN ReleaseEngine(engine)
             ELSE [engine |-> engine, deleted |-> FALSE]
    IN
    /\ partitions' = r.ps
    /\ fault' = r.fault
    /\ engine' = e.engine
    /\ last' = [NoCall EXCEPT !.op = "cleanup", !.returned = (r.fault = "none"),
                              !.leaked = r.leaked,
                              !.released = Released(partitions, r.ps, readInst),
                              !.engdel = e.deleted,
                              !.prior = IF last.op = "cleanup" /\ last.returned
                                          THEN Cardinality(last.released)
                                                 + (IF last.engdel THEN 1 ELSE 0)
                                          ELSE -1]

(* ------------------------------------------------------------------ *)
(* The API driven by an arbitrary caller                                *)
(* ------------------------------------------------------------------ *)
Running == fault = "none"
LoadAttempts == {"nomem", "nostore"} \cup Files

wasm_api_init ==
    /\ pc = "api" /\ Running /\ engine = "NULL"
    /\ \E ok \in BOOLEAN : InitEngine(ok)
    /\ UNCHANGED <<pc, num_partition, streak, tick, slices>>

wasm_api_load_partition ==
    /\ pc = "api" /\ Running /\ engine = "live"
    /\ \E id \in Ids :
          IF InArray(id)
            THEN \E how \in (IF partitions[id].ptr = "NULL" THEN LoadAttempts ELSE {"fib"}) :
                    Load(id, how, "NULL")
            ELSE \E how \in {"nomem", "fib"}, adjacent \in {"NULL", "set"} :
                    Load(id, how, adjacent)
    /\ UNCHANGED <<pc, num_partition, streak, tick, slices>>

wasm_api_inject_fuel ==
    /\ pc = "api" /\ Running
    /\ \E id \in Ids :
          IF InArray(id)
            THEN \E a \in FuelAmounts, yield \in BOOLEAN :
                    \/ Inject(id, a, yield, TRUE)
                    \/ a = MaxFuel /\ Inject(id, a, yield, FALSE)
            ELSE OutOfArray("inject", id)
    /\ UNCHANGED <<pc, num_partition, streak, tick, slices>>

wasm_api_run_partition ==
    /\ pc = "api" /\ Running
    /\ \E id \in Ids :
          IF InArray(id)
            THEN \E f \in FuncNames : Run(id, f)
            ELSE OutOfArray("run", id)
    /\ UNCHANGED <<pc, num_partition, streak, tick, slices>>

wasm_api_fuel_remaining ==
    /\ pc = "api" /\ Running
    /\ \E id \in Ids :
          IF InArray(id)
            THEN Fuel(id)
            ELSE OutOfArray("fuel", id)
    /\ UNCHANGED <<pc, num_partition, streak, tick, slices>>

get_wasm_partition ==
    /\ pc = "api" /\ Running
    /\ \E id \in Ids : GetPartition(id)
    /\ UNCHANGED <<pc, num_partition, streak, tick, slices>>

wasm_api_cleanup ==
    /\ pc = "api" /\ Running
    /\ \E readInst \in [Slots -> {"true", "false"}] :
          /\ \A i \in Slots : readInst[i] \in Reads(partitions[i].instantiated, {"true", "false"})
          /\ Cleanup(readInst)
    /\ UNCHANGED <<pc, num_partition, streak, tick, slices>>

Init ==
    /\ engine = "NULL"
    /\ partitions = [i \in Slots |-> NoPartition]
    /\ fault = "none"
    /\ last = NoCall
    /\ pc = "api"
    /\ num_partition = 0
    /\ streak = <<>>
    /\ tick = 0
    /\ slices = [i \in Slots |-> NoSlices]

Next ==
    \/ wasm_api_init
    \/ wasm_api_load_partition
    \/ wasm_api_inject_fuel
    \/ wasm_api_run_partition
    \/ wasm_api_fuel_remaining
    \/ get_wasm_partition
    \/ wasm_api_cleanup

Spec == Init /\ [][Next]_vars

(* ------------------------------------------------------------------ *)
(* main.c: main and sched_cycle                                         *)
(* ------------------------------------------------------------------ *)
\* mutants of the switch below: no case advances the index / every case does
Dispatch_NeverAdvance(status, index) == index
Dispatch_AlwaysAdvance(status, index) == (index + 1) % NUM_MAX_PARTITIONS

\* the switch of sched_cycle: the index after a slice that returned status
Dispatch(status, index) ==
    IF status = PARTITION_YIELDED THEN (index + 1) % NUM_MAX_PARTITIONS ELSE index

\* the case of sched_cycle's switch that a status selects
Branch(status) ==
    IF status = PARTITION_DONE THEN "done"
    ELSE IF status = PARTITION_YIELDED THEN "yielded"
    ELSE IF status = PARTITION_ERROR THEN "error"
    ELSE "default"

\* the latest NUM_MAX_PARTITIONS partitions whose slices yielded in a row
Extend(s, id) ==
    IF Len(s) < NUM_MAX_PARTITIONS THEN Append(s, id) ELSE Append(Tail(s), id)

\* the account of a partition's calls after a slice: a call that is
\* started opens a new account, a slice that yields adds to the open one
Account(a, fuel, call) ==
    LET y == IF call.ret = PARTITION_YIELDED THEN 1 ELSE 0 IN
    IF ~call.returned THEN a
    ELSE IF call.started > 0
      THEN [budget |-> fuel, yields |-> y, first |-> (a.budget < 0)]
      ELSE [a EXCEPT !.yields = @ + y]

\* if(wasm_api_init() != WASM_API_OK) return 1;
main_init ==
    /\ pc = "init" /\ Running
    /\ \E ok \in BOOLEAN : InitEngine(ok)
    /\ pc' = IF last'.ret = WASM_API_OK THEN "load0" ELSE "exit"
    /\ UNCHANGED <<num_partition, streak, tick, slices>>

\* mutant of the step below: main goes on whatever the load returned
main_load_IgnoresResult ==
    /\ pc \in {"load0", "load1"} /\ Running
    /\ LET id == IF pc = "load0" THEN 0 ELSE 1
           tries == IF pc = "load0" THEN LoadAttempts
                    ELSE {"nomem", "nostore", partitions[0].file}
       IN /\ \E how \in tries : Load(id, how, "NULL")
          /\ pc' = IF id = 0 THEN "inject0" ELSE "inject1"
    /\ UNCHANGED <<num_partition, streak, tick, slices>>

\* if(wasm_api_load_partition(i, "wasm/fib.wasm") != WASM_API_OK) return WASM_API_ERR;
\* what wasm/fib.wasm holds is the same for both loads
main_load ==
    /\ pc \in {"load0", "load1"} /\ Running
    /\ LET id == IF pc = "load0" THEN 0 ELSE 1
           tries == IF pc = "load0" THEN LoadAttempts
                    ELSE {"nomem", "nostore", partitions[0].file}
       IN /\ \E how \in tries : Load(id, how, "NULL")
          /\ pc' = IF last'.ret # WASM_API_OK THEN "exit"
                   ELSE IF id = 0 THEN "inject0" ELSE "inject1"
    /\ UNCHANGED <<num_partition, streak, tick, slices>>

\* mutant of the step below: main injects the fuel with yield = false
main_inject_NoYield ==
    /\ pc \in {"inject0", "inject1"} /\ Running
    /\ LET id == IF pc = "inject0" THEN 0 ELSE 1
       IN /\ \E setOk \in BOOLEAN : Inject(id, MainFuel, FALSE, setOk)
          /\ pc' = IF last'.ret # WASM_API_OK THEN "exit"
                   ELSE IF id = 0 THEN "load1" ELSE "sched"
    /\ UNCHANGED <<num_partition, streak, tick, slices>>

\* if(wasm_api_inject_fuel(i, FUEL_AMOUNT, true) != WASM_API_OK) return WASM_API_ERR;
main_inject ==
    /\ pc \in {"inject0", "inject1"} /\ Running
    /\ LET id == IF pc = "inject0" THEN 0 ELSE 1
       IN /\ \E setOk \in BOOLEAN : Inject(id, MainFuel, TRUE, setOk)
          /\ pc' = IF last'.ret # WASM_API_OK THEN "exit"
                   ELSE IF id = 0 THEN "load1" ELSE "sched"
    /\ UNCHANGED <<num_partition, streak, tick, slices>>

\* one iteration of sched_cycle's while(1)
sched_cycle ==
    /\ pc = "sched" /\ Running
    /\ Run(num_partition, "main")
    /\ num_partition' = IF last'.returned THEN Dispatch(last'.ret, num_partition)
                        ELSE num_partition
    /\ streak' = IF last'.returned /\ last'.ret = PARTITION_YIELDED
                   THEN Extend(streak, num_partition) ELSE <<>>
    /\ tick' = 1 - tick
    /\ slices' = [slices EXCEPT ![num_partition] =
                     Account(@, partitions[num_partition].fuel, last')]
    /\ pc' = pc

MainInit ==
    /\ engine = "NULL"
    /\ partitions = [i \in Slots |-> NoPartition]
    /\ fault = "none"
    /\ last = NoCall
    /\ pc = "init"
    /\ num_partition = 0
    /\ streak = <<>>
    /\ tick = 0
    /\ slices = [i \in Slots |-> NoSlices]

MainNext ==
    \/ main_init
    \/ main_load
    \/ main_inject
    \/ sched_cycle

MainSpec == MainInit /\ [][MainNext]_vars

\* the program is one thread that keeps running: a step that can be taken is taken
FairMainSpec == MainSpec /\ WF_vars(MainNext)

(* ------------------------------------------------------------------ *)
(* Properties                                                           *)
(* ------------------------------------------------------------------ *)
\* the last call was wasm_api_run_partition on a slot of the array
RanSlot == last.op = "run" /\ InArray(last.id)
\* ... and it returned status
RunReturned(status) == RanSlot /\ last.returned /\ last.ret = status

\* C1: wasm_api_run_partition starts a new call only on a partition whose
\* future is NULL: a call in flight is never replaced by a newly started one.
C1_StartOnlyWhenIdle ==
    [][(last'.op = "run" /\ last'.started > 0)
         => /\ InArray(last'.id)
            /\ partitions[last'.id].future = "NULL"
            /\ last'.started = 1]_vars

\* a run on a partition with a call in flight that polled it and started none
C1_Witness ==
    /\ RunReturned(PARTITION_YIELDED)
    /\ last.polled /\ last.started = 0
    /\ partitions[last.id].future = "live"

\* C2: after wasm_api_run_partition returns on an instantiated partition,
\* the partition has a call in flight exactly if the status returned is
\* PARTITION_YIELDED.
C2_InFlightIffYielded ==
    (RanSlot /\ last.returned /\ partitions[last.id].instantiated = "true")
      => (partitions[last.id].future # "NULL" <=> last.ret = PARTITION_YIELDED)

\* a run that returned an error on an instantiated partition, no call in flight
C2_Witness ==
    /\ RunReturned(WASM_API_ERR)
    /\ partitions[last.id].instantiated = "true"
    /\ partitions[last.id].future = "NULL"
    /\ last.lookup

\* C3: the run that comes right after a PARTITION_YIELDED run of the same
\* partition polls the call in flight, looking up no export and starting no
\* call; the run that comes right after a PARTITION_DONE run of the same
\* partition, naming a function the module exports, looks the export up,
\* starts exactly one call and polls it.
C3_ResumeOrRestart ==
    [][(RanSlot /\ last.returned /\ last'.op = "run" /\ last'.id = last.id)
         => /\ last.ret = PARTITION_YIELDED
                 => (last'.polled /\ ~last'.lookup /\ last'.started = 0)
            /\ (last.ret = PARTITION_DONE
                  /\ HasExport(partitions[last.id].file, last'.func))
                 => (last'.polled /\ last'.lookup /\ last'.started = 1)]_vars

\* a run that resumed a call in flight and completed it
C3_Witness ==
    /\ RunReturned(PARTITION_DONE)
    /\ last.polled /\ ~last.lookup /\ last.started = 0

\* C4 (as claimed): a run whose call ends in a trap or an engine error
\* returns a failure status, not PARTITION_DONE nor PARTITION_YIELDED, with
\* the in-flight handle cleared and the partition still instantiated.
C4_TrapReportsFailure ==
    (RanSlot /\ last.returned /\ last.end = "trap")
      => /\ last.ret \notin {PARTITION_DONE, PARTITION_YIELDED}
         /\ partitions[last.id].future = "NULL"
         /\ partitions[last.id].instantiated = "true"

\* C5: in sched_cycle a PARTITION_YIELDED result advances the index to
\* (index + 1) mod NUM_MAX_PARTITIONS; NUM_MAX_PARTITIONS consecutive
\* Yielded results ran every partition once and bring the index back to
\* where the period began.
C5_RoundRobin ==
    /\ [][(pc = "sched" /\ last'.returned /\ last'.ret = PARTITION_YIELDED)
            => /\ last'.id = num_partition
               /\ num_partition' = (num_partition + 1) % NUM_MAX_PARTITIONS]_vars
    /\ [](Len(streak) = NUM_MAX_PARTITIONS
            => /\ \A i \in Slots : \E k \in 1..Len(streak) : streak[k] = i
               /\ num_partition = streak[1])

\* every partition has yielded once in a row
C5_Witness ==
    /\ pc = "sched" /\ Len(streak) = NUM_MAX_PARTITIONS
    /\ RunReturned(PARTITION_YIELDED)

\* C6: in sched_cycle a result other than PARTITION_YIELDED leaves the
\* index unchanged, and the next cycle runs the same partition.
C6_NoAdvanceUnlessYielded ==
    /\ [][(pc = "sched" /\ last'.returned /\ last'.ret # PARTITION_YIELDED)
            => num_partition' = num_partition]_vars
    /\ [][(pc = "sched" /\ last.op = "run" /\ last.returned
             /\ last.ret # PARTITION_YIELDED)
            => (last'.op = "run" /\ last'.id = last.id)]_vars

\* a cycle that ended with an error status and left the index on its partition
C6_Witness ==
    /\ pc = "sched" /\ RunReturned(WASM_API_ERR)
    /\ num_partition = last.id

\* a cycle of the scheduler that runs a slice of partition p
SliceOf(p) == sched_cycle /\ num_partition = p

\* C7 (as claimed): in a run of main that meets no fault and reaches the
\* scheduler, every partition is run again after every point of the run:
\* each partition is given a slice infinitely often.
C7_NoStarvation ==
    ([]Running /\ <>(pc = "sched")) => \A p \in Slots : []<><<SliceOf(p)>>_vars

\* C8 (as claimed): in a run that meets no fault, after a slice of partition
\* p has returned a failure, every other partition is given a later slice.
C8_FailureIsLocal ==
    ([]Running) =>
      \A p \in Slots : \A q \in Slots \ {p} :
        []((pc = "sched" /\ RunReturned(WASM_API_ERR) /\ last.id = p)
             => <>(RanSlot /\ last.id = q))

\* C9: wasm_api_load_partition on an occupied slot of the array returns
\* WASM_API_ERR, allocates nothing and leaves every slot as it was.
C9_OccupiedSlotRejected ==
    [][(last'.op = "load" /\ InArray(last'.id) /\ partitions[last'.id].ptr # "NULL")
         => /\ last'.returned /\ last'.ret = WASM_API_ERR
            /\ ~last'.alloc
            /\ partitions' = partitions]_vars

\* a load rejected on a slot that holds an instantiated partition with fuel
C9_Witness ==
    /\ last.op = "load" /\ InArray(last.id)
    /\ last.ret = WASM_API_ERR /\ ~last.alloc
    /\ partitions[last.id].instantiated = "true"
    /\ partitions[last.id].fuel > 0

\* C10 (as claimed): load, lookup and run with an id outside
\* [0, NUM_MAX_PARTITIONS) return an error and touch nothing outside the
\* partitions array.
C10_OutOfRangeRejected ==
    (last.op \in {"load", "get", "run"} /\ ~InArray(last.id))
      => /\ last.returned
         /\ last.oob = "none"
         /\ last.op # "get" => last.ret = WASM_API_ERR
         /\ last.op = "get" => last.got = "NULL"

\* C11 (as claimed): a wasm_api_load_partition that fails after it has
\* allocated the partition struct returns with the slot empty and with
\* the struct, the store, the linker and the module released.
C11_FailedLoadReleasesAll ==
    (last.op = "load" /\ InArray(last.id) /\ last.returned
       /\ last.ret = WASM_API_ERR /\ last.alloc)
      => /\ partitions[last.id] = NoPartition
         /\ last.leaked = {}

\* C12 (as claimed): when some partition is loaded, whatever loads have
\* failed before, wasm_api_cleanup runs to its end, touching no struct
\* that was freed, and empties every slot, the loaded partitions' store
\* and module released.
C12_CleanupAfterFailedLoads ==
    [][(last'.op = "cleanup"
          /\ \E i \in Slots : partitions[i].instantiated = "true")
         => /\ last'.returned
            /\ \A i \in Slots : partitions'[i] = NoPartition
            /\ \A i \in Slots : partitions[i].instantiated = "true"
                  => last'.leaked \cap {<<i, "store">>, <<i, "module">>} = {}]_vars

\* C13: when wasm_api_cleanup returns, every slot is empty and the engine
\* handle is released and cleared, whether the partitions it found were
\* instantiated or not.
C13_CleanupEmptiesRegistry ==
    (last.op = "cleanup" /\ last.returned)
      => /\ \A i \in Slots : partitions[i] = NoPartition
         /\ engine = "NULL"

\* a cleanup that returned after freeing a partition that was not
\* instantiated: the store of that partition is what it left behind
C13_Witness ==
    /\ last.op = "cleanup" /\ last.returned
    /\ \E i \in Slots : <<i, "store">> \in last.leaked
    /\ \A i \in Slots : partitions[i].ptr = "NULL"
    /\ engine = "NULL"

\* C14: wasm_api_inject_fuel with yield = false sets the yield interval to
\* 0, and a run of a partition whose yield interval is 0 never returns
\* PARTITION_YIELDED, whatever fuel the partition has.
C14_NoYieldWhenDisabled ==
    /\ [][(last'.op = "inject" /\ InArray(last'.id) /\ last'.returned /\ ~last'.yield)
            => partitions'[last'.id].interval = 0]_vars
    /\ [][(last'.op = "run" /\ InArray(last'.id) /\ last'.returned
             /\ partitions[last'.id].interval = 0)
            => last'.ret # PARTITION_YIELDED]_vars

\* a long call, started on a budget injected with yield = false, that
\* ran to its return in one slice
C14_Witness ==
    /\ RunReturned(PARTITION_DONE) /\ last.started = 1 /\ last.end = "ret"
    /\ partitions[last.id].file = "fib"
    /\ partitions[last.id].interval = 0
    /\ partitions[last.id].fuel = MaxFuel - LongWork

\* the least whole number of b-sized steps that cover a
CeilDiv(a, b) == (a + b - 1) \div b
Min(a, b) == IF a < b THEN a ELSE b

\* the last cycle of sched_cycle completed a call of a guest that needs
\* more than YIELD_AFTER fuel to return
LongCallDone ==
    /\ pc = "sched" /\ RunReturned(PARTITION_DONE) /\ last.polled
    /\ Work(partitions[last.id].file) > YIELD_AFTER
    /\ slices[last.id].budget >= 0

\* C15 (as claimed): under main, which injects with yield = true, the
\* first call of a partition whose guest needs more than YIELD_AFTER fuel,
\* started on the budget B, has returned PARTITION_YIELDED at least
\* ceil(B / YIELD_AFTER) - 1 times when it returns PARTITION_DONE.
C15_YieldsByBudget ==
    (LongCallDone /\ slices[last.id].first)
      => slices[last.id].yields >= CeilDiv(slices[last.id].budget, YIELD_AFTER) - 1

\* C15 (amended): every call of such a guest, started with B fuel left and
\* needing W fuel to return, has returned PARTITION_YIELDED at least
\* ceil(min(B, W) / YIELD_AFTER) - 1 times when it returns PARTITION_DONE.
C15_YieldsByBudgetOrWork ==
    LongCallDone
      => slices[last.id].yields >=
           CeilDiv(Min(slices[last.id].budget, Work(partitions[last.id].file)),
                   YIELD_AFTER) - 1

\* a first call on main's whole budget that yielded twice and then
\* returned, with fuel to spare
C15_Witness ==
    /\ LongCallDone /\ slices[last.id].first /\ last.end = "ret"
    /\ slices[last.id].budget = MainFuel
    /\ slices[last.id].yields = CeilDiv(LongWork, YIELD_AFTER) - 1
    /\ partitions[last.id].fuel > 0

\* C16 (as claimed): while sched_cycle runs no partition's remaining fuel
\* increases, and every wasm_api_run_partition it makes strictly decreases
\* the partition's remaining fuel or returns PARTITION_DONE.
C16_FuelDecreasesOrDone ==
    /\ [][pc = "sched" => \A i \in Slots : partitions'[i].fuel <= partitions[i].fuel]_vars
    /\ [][(pc = "sched" /\ last'.op = "run" /\ last'.returned)
            => \/ partitions'[last'.id].fuel < partitions[last'.id].fuel
               \/ last'.ret = PARTITION_DONE]_vars

\* C16 (amended): while sched_cycle runs no partition's remaining fuel
\* increases, and every wasm_api_run_partition it makes strictly decreases
\* the partition's remaining fuel, returns PARTITION_DONE, or returns
\* WASM_API_ERR without having polled a call.
C16_FuelDecreasesOrDoneOrFailed ==
    /\ [][pc = "sched" => \A i \in Slots : partitions'[i].fuel <= partitions[i].fuel]_vars
    /\ [][(pc = "sched" /\ last'.op = "run" /\ last'.returned)
            => \/ partitions'[last'.id].fuel < partitions[last'.id].fuel
               \/ last'.ret = PARTITION_DONE
               \/ last'.ret = WASM_API_ERR /\ ~last'.polled]_vars

\* a slice that yielded, its fuel down by one yield interval, after a slice
\* of the same scheduler run that did the same
C16_Witness ==
    /\ pc = "sched" /\ RunReturned(PARTITION_YIELDED) /\ last.started = 0
    /\ slices[last.id].yields = 2
    /\ partitions[last.id].fuel = slices[last.id].budget - 2 * YIELD_AFTER

\* C17: a wasm_api_run_partition on a partition whose yield interval is
\* set burns at most YIELD_AFTER units of the partition's fuel, whatever
\* the guest and however much fuel the partition has.
C17_SliceBounded ==
    /\ [][(last'.op = "inject" /\ InArray(last'.id) /\ last'.returned /\ last'.yield)
            => partitions'[last'.id].interval = YIELD_AFTER]_vars
    /\ [][(last'.op = "run" /\ InArray(last'.id) /\ partitions[last'.id].interval > 0)
            => partitions[last'.id].fuel - partitions'[last'.id].fuel <= YIELD_AFTER]_vars

\* a slice of a long call, on a budget of more than one interval, that
\* was suspended after exactly YIELD_AFTER units
C17_Witness ==
    /\ RunReturned(PARTITION_YIELDED) /\ last.started = 1
    /\ partitions[last.id].interval = YIELD_AFTER
    /\ partitions[last.id].fuel = MaxFuel - YIELD_AFTER
    /\ partitions[last.id].need = LongWork - YIELD_AFTER

\* C18 (as claimed): a wasm_api_inject_fuel on a partition that has a call
\* in flight changes neither the fuel nor the yield interval of the
\* partition.
C18_NoInjectInFlight ==
    [][(last'.op = "inject" /\ InArray(last'.id)
          /\ partitions[last'.id].future = "live")
         => /\ partitions'[last'.id].fuel = partitions[last'.id].fuel
            /\ partitions'[last'.id].interval = partitions[last'.id].interval]_vars

\* C19 (as claimed): a wasm_api_inject_fuel whose set-fuel operation the
\* engine refused returns WASM_API_ERR.
C19_InjectReportsError ==
    (last.op = "inject" /\ InArray(last.id) /\ last.returned /\ last.engerr)
      => last.ret = WASM_API_ERR

\* the last call was a run that looked up an export the module lacks
LookupFailed ==
    /\ RanSlot /\ last.returned /\ last.lookup
    /\ ~HasExport(partitions[last.id].file, last.func)

\* C20: a wasm_api_run_partition that looks up a name the module does not
\* export as a function returns WASM_API_ERR, having started no call, and
\* leaves the partition instantiated with no call in flight; a run of the
\* same partition that follows it with an exported name looks the name up,
\* starts one call and polls it.
C20_LookupFailureIsLocal ==
    /\ [](LookupFailed
            => /\ last.ret = WASM_API_ERR /\ last.started = 0 /\ ~last.polled
               /\ partitions[last.id].instantiated = "true"
               /\ partitions[last.id].future = "NULL")
    /\ [][(LookupFailed /\ last'.op = "run" /\ last'.id = last.id
             /\ HasExport(partitions[last.id].file, last'.func))
            => /\ last'.returned /\ last'.lookup
               /\ last'.started = 1 /\ last'.polled
               /\ last'.ret \in {PARTITION_DONE, PARTITION_YIELDED}]_vars

\* a failed lookup on a module that exports another name, with fuel for
\* the call a later run can start
C20_Witness ==
    /\ LookupFailed /\ last.func = "other"
    /\ HasExport(partitions[last.id].file, "main")
    /\ partitions[last.id].fuel > 0

\* C21 (as claimed): every status sched_cycle gets from
\* wasm_api_run_partition is PARTITION_DONE, PARTITION_YIELDED or
\* PARTITION_ERROR, and a slice that failed selects the PARTITION_ERROR
\* case of the switch, never the default case.
C21_StatusInEnum ==
    (pc = "sched" /\ RanSlot /\ last.returned)
      => /\ last.ret \in {PARTITION_DONE, PARTITION_YIELDED, PARTITION_ERROR}
         /\ Branch(last.ret) # "default"
         /\ ~last.polled => Branch(last.ret) = "error"

\* C22 (as claimed): a wasm_api_load_partition whose instantiation ended
\* in a trap returns WASM_API_ERR and does not leave the partition marked
\* instantiated.
C22_InstantiationTrapFailsLoad ==
    (last.op = "load" /\ InArray(last.id) /\ last.returned /\ last.end = "trap")
      => /\ last.ret = WASM_API_ERR
         /\ partitions[last.id].instantiated # "true"

\* C23: wasm_api_run_partition(i) and wasm_api_inject_fuel(i), i a slot of
\* the array, leave every other slot of the registry, with the fuel, yield
\* interval, in-flight call and instantiated flag of its partition, as it was.
C23_OtherPartitionsUntouched ==
    [][(last'.op \in {"run", "inject"} /\ InArray(last'.id))
         => \A j \in Slots \ {last'.id} : partitions'[j] = partitions[j]]_vars

\* a slice of one partition that burned fuel while another partition had
\* fuel and a call in flight
C23_Witness ==
    /\ RunReturned(PARTITION_YIELDED)
    /\ \E j \in Slots \ {last.id} :
          /\ partitions[j].future = "live"
          /\ partitions[j].fuel > partitions[last.id].fuel

\* C24 (as claimed): on a slot of the array that was never loaded,
\* get_wasm_partition reports that nothing is loaded, and
\* wasm_api_run_partition, wasm_api_inject_fuel and wasm_api_fuel_remaining
\* return WASM_API_ERR, dereferencing nothing and changing nothing.
C24_EmptySlotRejected ==
    [][(InArray(last'.id) /\ partitions[last'.id].ptr = "NULL")
         => /\ last'.op = "get" => last'.got = "NULL"
            /\ last'.op \in {"run", "inject", "fuel"}
                 => /\ last'.returned /\ last'.ret = WASM_API_ERR
                    /\ fault' = "none"
                    /\ partitions' = partitions]_vars

\* C25 (as claimed): a run of main that meets no fault and enters
\* sched_cycle eventually leaves it and calls wasm_api_cleanup, which
\* empties the registry and releases the engine.
C25_MainReachesCleanup ==
    ([]Running /\ <>(pc = "sched"))
      => <>(last.op = "cleanup" /\ engine = "NULL"
              /\ \A i \in Slots : partitions[i].ptr = "NULL")

\* C26: a wasm_api_inject_fuel(id, a, y) that the engine accepts, on an
\* instantiated partition with no call in flight, leaves the partition
\* with exactly a units of fuel, whatever it had before, and with the
\* yield interval YIELD_AFTER if y is true and 0 if y is false.
C26_InjectSetsFuel ==
    [][(last'.op = "inject" /\ InArray(last'.id)
          /\ partitions[last'.id].instantiated = "true"
          /\ partitions[last'.id].future = "NULL"
          /\ ~last'.engerr)
         => /\ last'.returned /\ last'.ret = WASM_API_OK
            /\ partitions'[last'.id].fuel = last'.amount
            /\ partitions'[last'.id].interval = IF last'.yield THEN YIELD_AFTER ELSE 0]_vars

\* an injection of the full amount into a partition that has run a call
\* to its end before
C26_Witness ==
    /\ last.op = "inject" /\ InArray(last.id) /\ last.returned /\ ~last.engerr
    /\ last.amount = MaxFuel /\ last.yield
    /\ partitions[last.id].results = "heap"
    /\ partitions[last.id].future = "NULL"
    /\ partitions[last.id].fuel = MaxFuel
    /\ partitions[last.id].interval = YIELD_AFTER

\* C27: whenever main is in sched_cycle, the index is a slot of the array
\* and the slot holds a partition that is loaded, marked instantiated and
\* on which wasm_api_inject_fuel has set the yield interval.
C27_SchedulerRunsLoadedSlots ==
    pc = "sched"
      => /\ InArray(num_partition)
         /\ partitions[num_partition].ptr = "live"
         /\ partitions[num_partition].instantiated = "true"
         /\ partitions[num_partition].interval = YIELD_AFTER

\* a cycle that ran the last slot of the array
C27_Witness ==
    /\ pc = "sched" /\ RanSlot /\ last.returned
    /\ last.id = NUM_MAX_PARTITIONS - 1
    /\ num_partition = 0

\* C28: a wasm_api_run_partition polls only a future it has just started
\* or one that is in flight; it deletes the future exactly when the poll
\* reports completion, and partition->future is NULL from then on, so that
\* no later run polls or deletes it; wasm_api_cleanup deletes no future.
C28_FutureDeletedOnce ==
    /\ [][(last'.op = "run" /\ last'.polled)
            => (last'.started = 1 \/ partitions[last'.id].future = "live")]_vars
    /\ []((RanSlot /\ last.returned)
            => /\ last.deleted <=> (last.polled /\ last.end # "susp")
               /\ last.deleted => partitions[last.id].future = "NULL")
    /\ [](last.op = "cleanup" => ~last.deleted)

\* a future that was polled in three runs and deleted by the third, the
\* one that saw the call return
C28_Witness ==
    /\ RunReturned(PARTITION_DONE) /\ last.end = "ret"
    /\ last.deleted /\ last.started = 0
    /\ partitions[last.id].file = "fib"
    /\ partitions[last.id].interval = YIELD_AFTER
    /\ partitions[last.id].fuel = MaxFuel - LongWork
    /\ partitions[last.id].future = "NULL"

\* C29 (as claimed): when wasm_api_cleanup returns, the store, module,
\* linker, results buffer and in-flight future of every partition it
\* found in the registry have been released.
C29_CleanupReleasesAll ==
    (last.op = "cleanup" /\ last.returned) => last.leaked = {}

\* C30 (as claimed): a wasm_api_run_partition on a slot that a failed load
\* left occupied returns WASM_API_ERR, having looked up no export and
\* started and polled no call, and leaves the partition's future and fuel
\* as they were.
C30_NotInstantiatedRejected ==
    [][(last'.op = "run" /\ InArray(last'.id)
          /\ partitions[last'.id].ptr # "NULL"
          /\ partitions[last'.id].instantiated # "true")
         => /\ last'.returned /\ last'.ret = WASM_API_ERR
            /\ ~last'.lookup /\ last'.started = 0 /\ ~last'.polled
            /\ partitions'[last'.id].future = partitions[last'.id].future
            /\ partitions'[last'.id].fuel = partitions[last'.id].fuel]_vars

\* C31: a wasm_api_cleanup called right after a wasm_api_cleanup that
\* returned finds every slot empty and the engine handle NULL, releases
\* nothing, and leaves the registry and the engine handle as they were.
C31_CleanupIdempotent ==
    /\ []((last.op = "cleanup" /\ last.prior >= 0)
            => /\ last.returned
               /\ last.released = {} /\ ~last.engdel /\ last.leaked = {})
    /\ [][(last.op = "cleanup" /\ last.returned /\ last'.op = "cleanup")
            => /\ \A i \in Slots : partitions[i] = NoPartition
               /\ engine = "NULL"
               /\ partitions' = partitions
               /\ engine' = engine
               /\ fault' = fault]_vars

\* a second cleanup, after one that released the engine and the struct,
\* module and store of an instantiated partition
C31_Witness ==
    /\ last.op = "cleanup" /\ last.returned
    /\ last.prior >= 4
    /\ last.released = {} /\ ~last.engdel
    /\ engine = "NULL"

====
